---- MODULE Spec2Model ----
\* Model of the halo2 range-check and less-than gadgets
\* (src/src/native_range_check.rs, src/src/less_than.rs, src/src/main.rs).
\*
\* The pallas base field (a 255-bit prime just above 2^254, whose to_le_bits()
\* yields a 256-bit array) is scaled down to the 5-bit prime 19 = 2^4 + 3 with a
\* 6-bit to_le_bits(); the const generics WINDOW_SIZE, NUM_BITS, NUM_WINDOWS are
\* chosen once, in Init.  A Value<F> is a set: {} is Value::unknown(), {v} is
\* Value::known(v).  A column is a function from its assigned rows to Values.
EXTENDS Integers, Sequences, FiniteSets, TLC

VARIABLES
    WINDOW_SIZE, NUM_BITS, NUM_WINDOWS,  \* const generics of the chips
    pc,              \* "start", "configured", "loaded", "assigned", "panic"
    err,             \* which assertion aborted the run ("none" if none)
    circuit,         \* "none", "range" or "less_than": what configure() registered
    lookups,         \* z columns with a registered lookup argument
    gates,           \* registered gates
    k_values_table,  \* contents of the lookup table column
    a, b, a_offset,  \* advice columns of the less-than chip
    s_lt,            \* rows where the less-than selector is enabled
    z1, z2,          \* advice columns of the two range-check chips
    s_rc1, s_rc2,    \* rows where each range-check selector is enabled
    zero1, zero2,    \* rows of z1, z2 constrained to the constant zero
    copies,          \* copy constraints <<column, row, column, row>>
    call             \* the witness-phase call that was made, with its arguments

vars == <<WINDOW_SIZE, NUM_BITS, NUM_WINDOWS, pc, err, circuit, lookups, gates,
          k_values_table, a, b, a_offset, s_lt, z1, z2, s_rc1, s_rc2,
          zero1, zero2, copies, call>>

params == <<WINDOW_SIZE, NUM_BITS, NUM_WINDOWS>>
layout == <<s_lt, s_rc1, s_rc2, zero1, zero2, copies>>
ltcols == <<a, b, a_offset>>

\* ---------------------------------------------------------------- bounds
MaxWindowSize == 3
MaxNumBits == 7
MaxNumWindows == 3
MaxOffset == 1
MaxProverWindows == 2

\* ----------------------------------------------------------------- field
\* The field modulus (pallas::Base, scaled).
P == 2^4 + 3
\* Length of the bit array to_le_bits() returns (256 for pallas, scaled).
REPR_BITS == 5 + 1

F == 0..(P - 1)
FAdd(x, y) == (x + y) % P
FSub(x, y) == (x + P - y) % P
FMul(x, y) == (x * y) % P
FInvert(x) == CHOOSE y \in F : (x * y) % P = 1
\* pallas::Base::from(u64)
FFrom(n) == n % P
\* pallas::Base::from(2).pow([n, 0, 0, 0])
FPow2(n) == (2^n) % P

Unknown == {}
Known(v) == {v}
IsKnown(val) == val # {}
Get(val) == CHOOSE v \in val : TRUE

Min(x, y) == IF x < y THEN x ELSE y
CeilDiv(x, y) == (x + y - 1) \div y

\* ------------------------------------------------------ decompose_value
\* a bit array that comes most significant bit first
to_be_bits(v) == [i \in 1..REPR_BITS |-> (v \div 2^(REPR_BITS - i)) % 2]

\* value.to_le_bits(): the canonical representative, least significant bit first.
to_le_bits(v) == [i \in 1..REPR_BITS |-> (v \div 2^(i - 1)) % 2]

\* a padding that forgets the outer "% WINDOW_SIZE"
padding_unreduced == WINDOW_SIZE - (NUM_BITS % WINDOW_SIZE)

padding == (WINDOW_SIZE - (NUM_BITS % WINDOW_SIZE)) % WINDOW_SIZE

\* .take(NUM_BITS).chain(repeat(false).take(padding))
bits(v) ==
    SubSeq(to_le_bits(v), 1, Min(NUM_BITS, REPR_BITS)) \o [i \in 1..padding |-> 0]

\* bits.chunks_exact(WINDOW_SIZE)
chunks_exact(s) ==
    [c \in 1..(Len(s) \div WINDOW_SIZE) |->
        SubSeq(s, (c - 1) * WINDOW_SIZE + 1, c * WINDOW_SIZE)]

\* decompose_value: panics when assert_eq!(bits.len(), NUM_BITS + padding) fails
decompose_value(v) ==
    IF Len(bits(v)) # NUM_BITS + padding
    THEN [panic |-> TRUE, chunks |-> <<>>]
    ELSE [panic |-> FALSE, chunks |-> chunks_exact(bits(v))]

\* c.iter().rev().fold(0, |acc, c| (acc << 1) + *c as u64), from position i down
RECURSIVE chunk_fold(_, _, _)
chunk_fold(c, i, acc) ==
    IF i = 0 THEN acc ELSE chunk_fold(c, i - 1, acc * 2 + c[i])

\* a fold that forgets .rev(): the window read most significant bit first
RECURSIVE chunk_fold_forward(_, _, _)
chunk_fold_forward(c, i, acc) ==
    IF i > Len(c) THEN acc ELSE chunk_fold_forward(c, i + 1, acc * 2 + c[i])

chunk_value_no_rev(c) == FFrom(chunk_fold_forward(c, 1, 0))

chunk_value(c) == FFrom(chunk_fold(c, Len(c), 0))

\* pallas::Base::from(1 << WINDOW_SIZE).invert().unwrap()
two_pow_k_inverse == FInvert(FFrom(2^WINDOW_SIZE))

\* a step that multiplies by 2^K instead of its inverse
z_next_times(z_curr, chunk) ==
    FMul(FSub(z_curr, chunk_value(chunk)), FFrom(2^WINDOW_SIZE))

\* z_next = (z_curr - k_i) / 2^K
z_next(z_curr, chunk) == FMul(FSub(z_curr, chunk_value(chunk)), two_pow_k_inverse)

\* the loop of decompose: rows offset+1.. of the z column, from the value z at
\* row offset+i-1 and the chunks i..
RECURSIVE chain(_, _, _, _, _)
chain(col, z, chunks, i, offset) ==
    IF i > Len(chunks) THEN col
    ELSE LET zn == IF IsKnown(z) /\ IsKnown(chunks[i])
                   THEN Known(z_next(Get(z), Get(chunks[i])))
                   ELSE Unknown
         IN chain((offset + i :> zn) @@ col, zn, chunks, i + 1, offset)

\* ------------------------------------------------------------- decompose
\* a selector loop that runs one row too far
enabled_rows_one_more(offset) == {offset + index : index \in 0..NUM_WINDOWS}

\* for index in 0..NUM_WINDOWS { s_rc.enable(region, index + offset) }
enabled_rows(offset) == {offset + index : index \in 0..(NUM_WINDOWS - 1)}

\* a strict mode that forgets the constraint
strict_zero_forgotten(zero, offset, strict) == zero

\* if strict { constrain_constant(z_values.last(), zero) }
strict_zero(zero, offset, strict) ==
    IF strict THEN zero \cup {offset + NUM_WINDOWS} ELSE zero

\* decompose(region, z_0, offset, strict) on a region whose z column is col, whose
\* selector rows are s_rc and whose zero-constrained rows are zero; z_0 is the
\* Value of the cell handed in.  The result is the region after the call, or after
\* the panic that aborted it.
decompose(col, s_rc, zero, z_0, offset, strict) ==
    LET enabled == s_rc \cup enabled_rows(offset)
        dv == decompose_value(Get(z_0))
        \* .transpose_vec(NUM_WINDOWS)
        decomposed_chunks ==
            IF IsKnown(z_0) THEN [i \in 1..Len(dv.chunks) |-> Known(dv.chunks[i])]
            ELSE [i \in 1..NUM_WINDOWS |-> Unknown]
        filled == chain(col, z_0, decomposed_chunks, 1, offset)
    IN  IF ~(WINDOW_SIZE * NUM_WINDOWS < NUM_BITS + WINDOW_SIZE)
        THEN [z |-> col, s_rc |-> s_rc, zero |-> zero, err |-> "assert_133"]
        ELSE IF IsKnown(z_0) /\ dv.panic
        THEN [z |-> col, s_rc |-> enabled, zero |-> zero, err |-> "assert_eq_115"]
        ELSE IF IsKnown(z_0) /\ Len(dv.chunks) # NUM_WINDOWS
        THEN [z |-> col, s_rc |-> enabled, zero |-> zero, err |-> "transpose_vec_145"]
        ELSE IF Len(decomposed_chunks) + 1 # NUM_WINDOWS + 1
        THEN [z |-> filled, s_rc |-> enabled, zero |-> zero, err |-> "assert_172"]
        ELSE [z |-> filled, s_rc |-> enabled,
              zero |-> strict_zero(zero, offset, strict), err |-> "none"]

\* ------------------------------------------------------------------ Init
Init ==
    /\ WINDOW_SIZE \in 1..MaxWindowSize
    /\ NUM_BITS \in 1..MaxNumBits
    /\ NUM_WINDOWS \in 1..MaxNumWindows
    /\ pc = "start"
    /\ err = "none"
    /\ circuit = "none"
    /\ lookups = {}
    /\ gates = {}
    /\ k_values_table = {}
    /\ a = <<>> /\ b = <<>> /\ a_offset = <<>>
    /\ s_lt = {}
    /\ z1 = <<>> /\ z2 = <<>>
    /\ s_rc1 = {} /\ s_rc2 = {}
    /\ zero1 = {} /\ zero2 = {}
    /\ copies = {}
    /\ call = [op |-> "none"]

\* ------------------------------------------------------------- configure
\* NativeRangeCheckChip::configure: registers the lookup on z; checks nothing.
ConfigureRange ==
    /\ pc = "start"
    /\ pc' = "configured"
    /\ circuit' = "range"
    /\ lookups' = {"z1"}
    /\ UNCHANGED <<params, err, gates, k_values_table, ltcols, z1, z2, layout, call>>

\* LessThanChip::configure: two range-check configurations and the gate.
ConfigureLessThan ==
    /\ pc = "start"
    /\ pc' = "configured"
    /\ circuit' = "less_than"
    /\ lookups' = {"z1", "z2"}
    /\ gates' = {"a_offset - 2^m + b - a"}
    /\ UNCHANGED <<params, err, k_values_table, ltcols, z1, z2, layout, call>>

\* load_k_table: index in 0..(1 << WINDOW_SIZE)
LoadKTable ==
    /\ pc = "configured"
    /\ pc' = "loaded"
    /\ k_values_table' = {FFrom(index) : index \in 0..(2^WINDOW_SIZE - 1)}
    /\ UNCHANGED <<params, err, circuit, lookups, gates, ltcols, z1, z2, layout, call>>

\* ----------------------------------------------------------- range check
\* A caller of decompose whose z_0 sits at row offset of the z column.
DecomposeAt(value, offset, strict, op) ==
    /\ pc = "loaded"
    /\ circuit = "range"
    /\ \E d \in {decompose((offset :> value), {}, {}, value, offset, strict)} :
        /\ z1' = d.z
        /\ s_rc1' = d.s_rc
        /\ zero1' = d.zero
        /\ err' = d.err
        /\ pc' = IF d.err = "none" THEN "assigned" ELSE "panic"
        /\ call' = [op |-> op, value |-> value, offset |-> offset, strict |-> strict]
        /\ UNCHANGED <<params, circuit, lookups, gates, k_values_table, ltcols,
                       z2, s_lt, s_rc2, zero2, copies>>

\* witness_range_check(value, strict): z_0 at row 0, decompose at offset 0
WitnessRangeCheck(value, strict) == DecomposeAt(value, 0, strict, "witness_range_check")

\* ------------------------------------------------------------- less than
\* an offset with the sign of b slipped
less_than_a_offset_plus(av, bv) ==
    IF IsKnown(av) /\ IsKnown(bv)
    THEN Known(FAdd(Get(av), FAdd(FPow2(NUM_BITS), Get(bv))))
    ELSE Unknown

\* less_than: a_offset = a + (2^m - b)
less_than_a_offset(av, bv) ==
    IF IsKnown(av) /\ IsKnown(bv)
    THEN Known(FAdd(Get(av), FSub(FPow2(NUM_BITS), Get(bv))))
    ELSE Unknown

\* witness_less_than(a, b, offset, strict): the region "a less than b", then
\* less_than_range_check: copy_range_check of a, then of a_offset (not reached
\* when the first one panics).
WitnessLessThan(av, bv, offset, strict) ==
    /\ pc = "loaded"
    /\ circuit = "less_than"
    /\ \E ao \in {less_than_a_offset(av, bv)} :
      \E d1 \in {decompose((0 :> av), {}, {}, av, 0, strict)} :
      \E d2 \in {IF d1.err = "none"
                  THEN decompose((0 :> ao), {}, {}, ao, 0, strict)
                  ELSE [z |-> z2, s_rc |-> s_rc2, zero |-> zero2, err |-> d1.err]} :
        /\ a' = (offset :> av)
        /\ b' = (offset :> bv)
        /\ s_lt' = {offset}
        /\ a_offset' = (offset :> ao)
        /\ z1' = d1.z
        /\ s_rc1' = d1.s_rc
        /\ zero1' = d1.zero
        /\ z2' = d2.z
        /\ s_rc2' = d2.s_rc
        /\ zero2' = d2.zero
        /\ err' = d2.err
        /\ copies' = IF d1.err = "none"
                      THEN {<<"a", offset, "z1", 0>>, <<"a_offset", offset, "z2", 0>>}
                      ELSE {<<"a", offset, "z1", 0>>}
        /\ pc' = IF d2.err = "none" THEN "assigned" ELSE "panic"
        /\ call' = [op |-> "witness_less_than", a |-> av, b |-> bv,
                    offset |-> offset, strict |-> strict]
        /\ UNCHANGED <<params, circuit, lookups, gates, k_values_table>>

\* ---------------------------------------------------------------- verify
Rows == 0..(MaxOffset + MaxNumWindows + 1)

Col(name) ==
    CASE name = "a" -> a
      [] name = "b" -> b
      [] name = "a_offset" -> a_offset
      [] name = "z1" -> z1
      [] name = "z2" -> z2

\* the field value of a cell; an unassigned cell reads as zero
CellValue(col, r) ==
    IF r \in DOMAIN col /\ IsKnown(col[r]) THEN Get(col[r]) ELSE 0

\* every assigned cell holds a known value
AllKnown == \A name \in {"a", "b", "a_offset", "z1", "z2"} :
                \A r \in DOMAIN Col(name) : IsKnown(Col(name)[r])

\* s_rc * (z_curr - z_next * 2^WINDOW_SIZE), the lookup input at row r
lookup_input(col, s_rc, r) ==
    IF r \in s_rc
    THEN FSub(CellValue(col, r), FMul(CellValue(col, r + 1), FFrom(2^WINDOW_SIZE)))
    ELSE 0

LookupOK(col, s_rc) == \A r \in Rows : lookup_input(col, s_rc, r) \in k_values_table

\* constrain_constant(cell, zero)
ZeroOK(col, zero) == \A r \in zero : CellValue(col, r) = 0

\* s_lt * (a_offset - 2^m + b - a)
gate_value(r) ==
    FSub(FAdd(FSub(CellValue(a_offset, r), FPow2(NUM_BITS)), CellValue(b, r)),
         CellValue(a, r))

GateOK == \A r \in s_lt : gate_value(r) = 0

CopyOK == \A c \in copies : CellValue(Col(c[1]), c[2]) = CellValue(Col(c[3]), c[4])

\* MockProver::verify() on the assigned circuit
Satisfied ==
    /\ AllKnown
    /\ ("z1" \in lookups => LookupOK(z1, s_rc1))
    /\ ("z2" \in lookups => LookupOK(z2, s_rc2))
    /\ ZeroOK(z1, zero1)
    /\ ZeroOK(z2, zero2)
    /\ (gates # {} => GateOK)
    /\ CopyOK

\* ------------------------------------------------------------------ Next
Values == {Known(v) : v \in F} \cup {Unknown}

Next ==
    \/ ConfigureRange
    \/ ConfigureLessThan
    \/ LoadKTable
    \/ /\ pc = "loaded"
       /\ \E value \in Values, strict \in BOOLEAN : WitnessRangeCheck(value, strict)
    \/ /\ pc = "loaded"
       /\ \E value \in Values, offset \in 1..MaxOffset, strict \in BOOLEAN :
              DecomposeAt(value, offset, strict, "decompose")
    \/ /\ pc = "loaded"
       /\ \E av \in F, bv \in F, offset \in 0..MaxOffset, strict \in BOOLEAN :
              WitnessLessThan(Known(av), Known(bv), offset, strict)
    \/ /\ pc = "loaded"
       /\ \E offset \in 0..MaxOffset, strict \in BOOLEAN :
              WitnessLessThan(Unknown, Unknown, offset, strict)

Spec == Init /\ [][Next]_vars

\* ------------------------------------------------------------ the prover
\* The constraints of a circuit are fixed by its layout, which synthesis with
\* unknown values (without_witnesses) produces; a prover may then put any field
\* values in the advice cells, and verification decides on the constraints alone.
ProverAssign ==
    /\ pc = "assigned"
    /\ circuit = "range"
    /\ call.value = Unknown
    /\ NUM_WINDOWS <= MaxProverWindows
    /\ z1' \in [DOMAIN z1 -> {Known(v) : v \in F}]
    /\ pc' = "proved"
    /\ UNCHANGED <<params, err, circuit, lookups, gates, k_values_table, ltcols,
                   z2, layout, call>>

NextProver ==
    \/ ConfigureRange
    \/ LoadKTable
    \/ /\ pc = "loaded"
       /\ \E strict \in BOOLEAN : WitnessRangeCheck(Unknown, strict)
    \/ ProverAssign

SpecProver == Init /\ [][NextProver]_vars

\* ---------------------------------------------------------------- claims
Pow2(n) == 2^n

\* a witness-phase call on the less-than circuit, with known a and b, completed
LtDone == pc = "assigned" /\ call.op = "witness_less_than" /\ IsKnown(call.a)
A == Get(call.a)
B == Get(call.b)

\* a witness-phase call on the range-check circuit, with a known value, completed
RcDone == /\ pc = "assigned"
          /\ call.op \in {"witness_range_check", "decompose"}
          /\ IsKnown(call.value)
V == Get(call.value)

\* the window the chain of column col holds at row r: z_r - 2^WINDOW_SIZE * z_(r+1)
WindowAt(col, r) ==
    FSub(CellValue(col, r), FMul(CellValue(col, r + 1), FFrom(Pow2(WINDOW_SIZE))))

\* sum over i in from..NUM_WINDOWS-1 of k_i * 2^(WINDOW_SIZE*i), over the integers
RECURSIVE Recompose(_, _, _)
Recompose(col, offset, from) ==
    IF from >= NUM_WINDOWS THEN 0
    ELSE WindowAt(col, offset + from) * Pow2(WINDOW_SIZE * from)
         + Recompose(col, offset, from + 1)

WindowsInTable(col, offset) ==
    \A i \in 0..(NUM_WINDOWS - 1) :
        /\ WindowAt(col, offset + i) \in 0..(Pow2(WINDOW_SIZE) - 1)
        /\ WindowAt(col, offset + i) \in k_values_table

\* C1: for 0 <= a < b < 2^NUM_BITS, with NUM_WINDOWS = ceil(NUM_BITS/WINDOW_SIZE)
\* and 2^(NUM_BITS+1) < p, the witness of witness_less_than(a, b, strict=true)
\* satisfies the gate, the window lookups of both chains and both
\* final-element-equals-zero constraints.
C1_LessThanSatisfiable ==
    (/\ LtDone
     /\ call.strict
     /\ A < B
     /\ B < Pow2(NUM_BITS)
     /\ NUM_WINDOWS = CeilDiv(NUM_BITS, WINDOW_SIZE)
     /\ Pow2(NUM_BITS + 1) < P)
    => /\ GateOK
       /\ LookupOK(z1, s_rc1) /\ LookupOK(z2, s_rc2)
       /\ zero1 = {NUM_WINDOWS} /\ zero2 = {NUM_WINDOWS}
       /\ ZeroOK(z1, zero1) /\ ZeroOK(z2, zero2)
       /\ Satisfied

C1_Witness ==
    /\ LtDone /\ call.strict
    /\ NUM_BITS = 3
    /\ A = Pow2(NUM_BITS) - 2 /\ B = Pow2(NUM_BITS) - 1
    /\ NUM_WINDOWS = CeilDiv(NUM_BITS, WINDOW_SIZE)
    /\ Satisfied

\* C2 (as stated): for a >= b, both in [0, 2^NUM_BITS), the circuit of
\* witness_less_than(a, b, strict=true) fails verification.
C2_Original ==
    (/\ LtDone
     /\ call.strict
     /\ A >= B
     /\ A < Pow2(NUM_BITS)
     /\ B < Pow2(NUM_BITS))
    => ~Satisfied

\* C2 (amended): for a >= b, both in [0, 2^NUM_BITS), and 2^(NUM_BITS+1) < p, the
\* circuit of witness_less_than(a, b, strict=true) fails verification: a_offset
\* = a + 2^NUM_BITS - b is >= 2^NUM_BITS and the final-element-equals-zero
\* constraint of its chain is violated.
C2_LessThanUnsatisfiable ==
    (/\ LtDone
     /\ call.strict
     /\ A >= B
     /\ A < Pow2(NUM_BITS)
     /\ B < Pow2(NUM_BITS)
     /\ Pow2(NUM_BITS + 1) < P)
    => /\ ~Satisfied
       /\ CellValue(a_offset, call.offset) = A + Pow2(NUM_BITS) - B
       /\ CellValue(a_offset, call.offset) >= Pow2(NUM_BITS)
       /\ ~ZeroOK(z2, zero2)

C2_Witness ==
    /\ LtDone /\ call.strict
    /\ NUM_BITS = 3
    /\ A = 1 /\ B = 0
    /\ ~Satisfied

\* C3 (as stated): when b >= 2^NUM_BITS the strict less-than check fails, even
\* when a < b; in particular for a = 2^NUM_BITS - 1, b = 2^NUM_BITS.
C3_Original ==
    (/\ LtDone
     /\ call.strict
     /\ B >= Pow2(NUM_BITS))
    => ~Satisfied

\* C3 (amended): b is never range-checked.  The strict less-than check is
\* satisfied exactly when a < 2^NUM_BITS and a_offset = a + 2^NUM_BITS - b (mod p)
\* is < 2^NUM_BITS, whatever b is; in particular a = 2^NUM_BITS - 1,
\* b = 2^NUM_BITS is satisfied.
C3_OnlyAAndOffsetChecked ==
    (LtDone /\ call.strict)
    => /\ Satisfied <=> (/\ A < Pow2(NUM_BITS)
                         /\ (A + Pow2(NUM_BITS) + P - B) % P < Pow2(NUM_BITS))
       /\ (A = Pow2(NUM_BITS) - 1 /\ B = Pow2(NUM_BITS)) => Satisfied
       /\ DOMAIN z1 = 0..NUM_WINDOWS /\ z1[0] = call.a
       /\ DOMAIN z2 = 0..NUM_WINDOWS /\ z2[0] = a_offset[call.offset]

C3_Witness ==
    /\ LtDone /\ call.strict
    /\ A = Pow2(NUM_BITS) - 1 /\ B = Pow2(NUM_BITS)
    /\ Satisfied

\* C4: for 0 <= v < 2^NUM_BITS and NUM_WINDOWS = ceil(NUM_BITS/WINDOW_SIZE), the
\* chain assigned by witness_range_check(v, strict=true) satisfies the lookup at
\* each of the NUM_WINDOWS enabled rows and ends with z_NUM_WINDOWS = 0.
C4_RangeCheckSatisfiable ==
    (/\ RcDone
     /\ call.op = "witness_range_check"
     /\ call.strict
     /\ V < Pow2(NUM_BITS)
     /\ NUM_WINDOWS = CeilDiv(NUM_BITS, WINDOW_SIZE))
    => /\ Cardinality(s_rc1) = NUM_WINDOWS
       /\ \A r \in s_rc1 : lookup_input(z1, s_rc1, r) \in k_values_table
       /\ z1[0] = Known(V)
       /\ z1[NUM_WINDOWS] = Known(0)
       /\ Satisfied

C4_Witness ==
    /\ RcDone /\ call.op = "witness_range_check" /\ call.strict
    /\ NUM_BITS = 5 /\ WINDOW_SIZE = 2 /\ NUM_WINDOWS = 3
    /\ V = 18
    /\ Satisfied

\* C5: strict mode gives an exact NUM_BITS bound: in any assignment of the chain
\* cells where every z_i - 2^WINDOW_SIZE * z_(i+1) is a table member and
\* z_NUM_WINDOWS = 0, the value z_0 lies in [0, 2^NUM_BITS), for parameters with
\* NUM_WINDOWS = ceil(NUM_BITS / WINDOW_SIZE).
C5_Claim ==
    (/\ pc = "proved"
     /\ call.strict
     /\ NUM_WINDOWS = CeilDiv(NUM_BITS, WINDOW_SIZE)
     /\ Satisfied)
    => CellValue(z1, 0) < Pow2(NUM_BITS)

\* C6: in non-strict mode, for parameters with 2^(WINDOW_SIZE*NUM_WINDOWS) <= p,
\* witness_range_check(v, strict=false) is satisfied for every
\* v <= 2^(WINDOW_SIZE*NUM_WINDOWS) - 1 and unsatisfied for every
\* v >= 2^(WINDOW_SIZE*NUM_WINDOWS).
C6_Claim ==
    (/\ RcDone
     /\ call.op = "witness_range_check"
     /\ ~call.strict
     /\ Pow2(WINDOW_SIZE * NUM_WINDOWS) <= P)
    => /\ V <= Pow2(WINDOW_SIZE * NUM_WINDOWS) - 1 => Satisfied
       /\ V >= Pow2(WINDOW_SIZE * NUM_WINDOWS) => ~Satisfied

\* C7: parameters with WINDOW_SIZE*NUM_WINDOWS < NUM_BITS are rejected by the
\* configure step: the run never gets past it, and no witness value is assigned.
C7_Claim ==
    (WINDOW_SIZE * NUM_WINDOWS < NUM_BITS)
    => /\ pc = "start"
       /\ call.op = "none"
       /\ DOMAIN z1 = {} /\ DOMAIN z2 = {}

\* C8 (as stated): for every chain decompose produces from a value v, the windows
\* k_i lie in [0, 2^WINDOW_SIZE) and sum over i of k_i * 2^(WINDOW_SIZE*i) = v.
C8_Original ==
    RcDone
    => /\ WindowsInTable(z1, call.offset)
       /\ Recompose(z1, call.offset, 0) = V

\* C8 (amended): for every chain decompose produces from a value v, the windows
\* k_i lie in [0, 2^WINDOW_SIZE) and recompose to the low NUM_BITS bits of v:
\* sum over i of k_i * 2^(WINDOW_SIZE*i) = v mod 2^NUM_BITS, which is v exactly
\* when v < 2^NUM_BITS.
C8_RoundTripLowBits ==
    /\ RcDone
       => /\ WindowsInTable(z1, call.offset)
          /\ Recompose(z1, call.offset, 0) = V % Pow2(NUM_BITS)
          /\ (Recompose(z1, call.offset, 0) = V) <=> (V < Pow2(NUM_BITS))
    /\ LtDone
       => /\ WindowsInTable(z1, 0) /\ WindowsInTable(z2, 0)
          /\ Recompose(z1, 0, 0) = A % Pow2(NUM_BITS)
          /\ Recompose(z2, 0, 0) = CellValue(a_offset, call.offset) % Pow2(NUM_BITS)

C8_Witness ==
    /\ RcDone
    /\ NUM_BITS = 3 /\ WINDOW_SIZE = 2
    /\ V = 13
    /\ Recompose(z1, call.offset, 0) = 5

\* C9: after decompose(z_0, offset, strict) on any field value, strict or not, the
\* selector is enabled on exactly rows offset..offset+NUM_WINDOWS-1, the z column
\* is assigned on exactly rows offset..offset+NUM_WINDOWS, and at every enabled
\* row z_i - 2^WINDOW_SIZE * z_(i+1) is in the table {0..2^WINDOW_SIZE-1}: no
\* lookup fails, and only the strict final-element constraint can reject.
C9_OwnWitnessLookups ==
    /\ RcDone
       => /\ s_rc1 = call.offset..(call.offset + NUM_WINDOWS - 1)
          /\ DOMAIN z1 = call.offset..(call.offset + NUM_WINDOWS)
          /\ k_values_table = 0..(Pow2(WINDOW_SIZE) - 1)
          /\ \A r \in s_rc1 : lookup_input(z1, s_rc1, r) \in k_values_table
          /\ LookupOK(z1, s_rc1)
          /\ zero1 = (IF call.strict THEN {call.offset + NUM_WINDOWS} ELSE {})
          /\ ~Satisfied => (call.strict /\ ~ZeroOK(z1, zero1))
    /\ LtDone
       => /\ s_rc1 = 0..(NUM_WINDOWS - 1) /\ s_rc2 = 0..(NUM_WINDOWS - 1)
          /\ DOMAIN z1 = 0..NUM_WINDOWS /\ DOMAIN z2 = 0..NUM_WINDOWS
          /\ LookupOK(z1, s_rc1) /\ LookupOK(z2, s_rc2)
          /\ ~Satisfied => (call.strict /\ ~(ZeroOK(z1, zero1) /\ ZeroOK(z2, zero2)))

C9_Witness ==
    /\ RcDone
    /\ call.op = "decompose" /\ call.offset = 1
    /\ ~call.strict
    /\ V >= Pow2(NUM_BITS)
    /\ NUM_WINDOWS = 3
    /\ LookupOK(z1, s_rc1)

\* the witness-phase call was made with known values and has ended
KnownCallEnded ==
    /\ pc \in {"assigned", "panic"}
    /\ \/ call.op \in {"witness_range_check", "decompose"} /\ IsKnown(call.value)
       \/ call.op = "witness_less_than" /\ IsKnown(call.a)

\* C10 (as stated): with a known witness value, decompose completes without a
\* panic if and only if NUM_WINDOWS = ceil(NUM_BITS / WINDOW_SIZE).
C10_Original ==
    KnownCallEnded
    => (pc = "assigned" <=> NUM_WINDOWS = CeilDiv(NUM_BITS, WINDOW_SIZE))

\* C10 (amended): with a known witness value, decompose completes without a panic
\* if and only if NUM_WINDOWS = ceil(NUM_BITS / WINDOW_SIZE) and NUM_BITS is at
\* most the length of the bit array to_le_bits() returns.  The assertion at the
\* top of decompose rejects exactly too many windows; with too few windows it
\* passes, and the run aborts at witness time on the length check against
\* NUM_WINDOWS; with NUM_BITS beyond the bit array, decompose_value's own length
\* assertion aborts the run.
C10_PanicFreeIffExactWindows ==
    KnownCallEnded
    => /\ pc = "assigned" <=> (/\ NUM_WINDOWS = CeilDiv(NUM_BITS, WINDOW_SIZE)
                               /\ NUM_BITS <= REPR_BITS)
       /\ err = "assert_133" <=> NUM_WINDOWS > CeilDiv(NUM_BITS, WINDOW_SIZE)
       /\ err = "transpose_vec_145"
            <=> (/\ NUM_WINDOWS < CeilDiv(NUM_BITS, WINDOW_SIZE)
                 /\ NUM_BITS <= REPR_BITS)
       /\ err = "assert_eq_115"
            <=> (/\ NUM_WINDOWS <= CeilDiv(NUM_BITS, WINDOW_SIZE)
                 /\ NUM_BITS > REPR_BITS)
       /\ (WINDOW_SIZE * NUM_WINDOWS < NUM_BITS) => pc = "panic"

C10_Witness ==
    /\ KnownCallEnded
    /\ WINDOW_SIZE * NUM_WINDOWS < NUM_BITS
    /\ NUM_BITS <= REPR_BITS
    /\ err = "transpose_vec_145"
    /\ DOMAIN z1 # {}

====
